---- MODULE Spec2Model ----
(***************************************************************************)
(* State-machine model of the inventory management application (app.py):   *)
(* the relational tables the request handlers read and write, the session, *)
(* and one action per request handler.  The database is the configured     *)
(* default, SQLite (app.py line 16): integer primary keys are rowids, so a *)
(* new row gets max(id)+1, and foreign keys are not enforced, so deleting  *)
(* a row leaves the rows that reference it in place.                       *)
(***************************************************************************)
EXTENDS Integers, Sequences, FiniteSets, TLC

VARIABLES
    session,      \* TRUE iff 'user_id' is in the session
    categories,   \* table category: id -> [name]
    products,     \* table product: id -> [category_id, sku, unit_price, quantity]
    suppliers,    \* table supplier: id -> [name]
    customers,    \* table customer: id -> [name]
    sales,        \* table sale with its sale_item rows:
                  \*   id -> [customer_id, total_amount, items]
    purchases,    \* table purchase_order with its purchase_item rows:
                  \*   id -> [supplier_id, status, items]
    ledger,       \* table stock_history, in id order
    inflight,     \* the add_product request between its two commits, or NoReq
    workers,      \* the requests served concurrently: worker -> what it has read
    resp          \* the response to the last request: [op, status]

vars == <<session, categories, products, suppliers, customers, sales, purchases,
          ledger, inflight, workers, resp>>
parties == <<suppliers, customers>>
data == <<categories, products, suppliers, customers, sales, purchases, ledger>>

----------------------------------------------------------------------------
(* Bounds of the model *)

MaxCategories == 2
MaxProducts == 2
MaxSales == 1
MaxPurchases == 1
MaxLines == 2
MaxQty == 2
MaxLedger == 4

CategoryIds == 1..MaxCategories
ProductIds == 1..MaxProducts
SaleIds == 1..MaxSales
PurchaseIds == 1..MaxPurchases
Names == {"Electronics", "Furniture"}
Skus == {"ELEC001", "ELEC002"}
SaleQtys == 1..MaxQty
InitialQtys == {0, MaxQty}
AdjustQtys == {1}
PurchaseQtys == {1}
ListPrices == {3}
UnitPrices == {2, 3}
SupplierIds == {1}
CustomerIds == {1}
PartyNames == {"Acme", "Globex"}
Pages == {"dashboard", "reports"}
AdjustmentTypes == {"add", "subtract"}
Reasons == {"manual_adjustment"}

NoReq == [op |-> "none"]
Workers == {"w1", "w2"}
Idle == [pc |-> "idle"]
Reads == {"cached", "fresh"}
Blank == [blank |-> TRUE]
Line(p, q) == [product_id |-> p, quantity |-> q]
SaleLine(p, q, price) == [product_id |-> p, quantity |-> q, unit_price |-> price]
SaleLinesAt(prices) ==
    {SaleLine(p, q, price) : p \in ProductIds, q \in SaleQtys, price \in prices}
SaleLines == SaleLinesAt(ListPrices)
PurchaseLines == {Line(p, q) : p \in ProductIds, q \in PurchaseQtys} \cup {Blank}

RECURSIVE SeqsUpTo(_, _)
SeqsUpTo(S, n) ==
    IF n = 0 THEN {<<>>}
    ELSE LET shorter == SeqsUpTo(S, n - 1)
         IN  shorter \cup {Append(s, x) : s \in {t \in shorter : Len(t) = n - 1}, x \in S}

SaleForms == SeqsUpTo(SaleLines, MaxLines)
PricedSaleForms ==
    SeqsUpTo({SaleLine(1, q, price) : q \in SaleQtys, price \in UnitPrices}, MaxLines)
PurchaseForms == SeqsUpTo(PurchaseLines, MaxLines)

----------------------------------------------------------------------------
(* Helpers *)

Max(S) == CHOOSE x \in S : \A y \in S : y <= x

\* SQLite rowid allocation for an INTEGER PRIMARY KEY: one more than the largest id
NextId(ids) == IF ids = {} THEN 1 ELSE Max(ids) + 1

Response(op, status) == [op |-> op, status |-> status]

\* drop a row from a table
Without(table, id) == [i \in DOMAIN table \ {id} |-> table[i]]

\* add or overwrite a row of a table
With(table, id, row) == [i \in DOMAIN table \cup {id} |-> IF i = id THEN row ELSE table[i]]

HistoryRow(p, ctype, change, prev, new, refId, refType) ==
    [product_id |-> p, change_type |-> ctype, quantity_change |-> change,
     previous_quantity |-> prev, new_quantity |-> new,
     reference_id |-> refId, reference_type |-> refType]

\* None in a nullable integer column
NoRef == 0

SetQuantity(prods, p, q) == [prods EXCEPT ![p].quantity = q]

----------------------------------------------------------------------------
Init ==
    /\ session = FALSE
    /\ categories = <<>>
    /\ products = <<>>
    /\ suppliers = <<>>
    /\ customers = <<>>
    /\ sales = <<>>
    /\ purchases = <<>>
    /\ ledger = <<>>
    /\ inflight = NoReq
    /\ workers = [w \in Workers |-> Idle]
    /\ resp = Response("none", "none")

\* login_required: without a session the handler does not run
LoginRedirect ==
    /\ resp' = Response("login_required", "warning")
    /\ UNCHANGED <<session, data, inflight, workers>>

\* a handler that returns without writing
Reply(op, status) ==
    /\ resp' = Response(op, status)
    /\ UNCHANGED <<session, data, inflight, workers>>

\* get_or_404 on an unknown id: the 404 handler answers (lines 1264-1271)
NotFound == Reply("not_found_error", "warning")

\* an unhandled exception: the 500 handler rolls back and answers (lines 1274-1283)
InternalError == Reply("internal_error", "danger")

login(ok) ==
    /\ inflight = NoReq
    /\ IF session THEN Reply("login", "redirect")
       ELSE IF ok
            THEN /\ session' = TRUE
                 /\ resp' = Response("login", "success")
                 /\ UNCHANGED <<data, inflight, workers>>
            ELSE Reply("login", "danger")

logout ==
    /\ inflight = NoReq
    /\ session' = FALSE
    /\ resp' = Response("logout", "info")
    /\ UNCHANGED <<data, inflight, workers>>

----------------------------------------------------------------------------
(* Category routes *)

CategoryNameTaken(name) == \E c \in DOMAIN categories : categories[c].name = name

add_category(name) ==
    /\ inflight = NoReq
    /\ IF ~session THEN LoginRedirect
       ELSE IF CategoryNameTaken(name) THEN Reply("add_category", "warning")
       ELSE /\ NextId(DOMAIN categories) \in CategoryIds
            /\ categories' = With(categories, NextId(DOMAIN categories), [name |-> name])
            /\ resp' = Response("add_category", "success")
            /\ UNCHANGED <<session, parties, products, sales, purchases, ledger, inflight, workers>>

\* the UNIQUE constraint on category.name fails the commit: internal error, rollback
edit_category(id, name) ==
    /\ inflight = NoReq
    /\ IF ~session THEN LoginRedirect
       ELSE IF id \notin DOMAIN categories THEN NotFound
       ELSE IF \E c \in DOMAIN categories \ {id} : categories[c].name = name
            THEN InternalError
       ELSE /\ categories' = [categories EXCEPT ![id].name = name]
            /\ resp' = Response("edit_category", "success")
            /\ UNCHANGED <<session, parties, products, sales, purchases, ledger, inflight, workers>>

\* category.products: the products whose category_id is this category
CategoryProducts(id) == {p \in DOMAIN products : products[p].category_id = id}

\* mutant of HasProducts: a single product does not count
HasSeveralProducts(id) == Cardinality(CategoryProducts(id)) > 1

HasProducts(id) == CategoryProducts(id) # {}

delete_category(id) ==
    /\ inflight = NoReq
    /\ IF ~session THEN LoginRedirect
       ELSE IF id \notin DOMAIN categories THEN NotFound
       ELSE IF HasProducts(id) THEN Reply("delete_category", "danger")
       ELSE /\ categories' = Without(categories, id)
            /\ resp' = Response("delete_category", "success")
            /\ UNCHANGED <<session, parties, products, sales, purchases, ledger, inflight, workers>>

----------------------------------------------------------------------------
(* Product routes *)

SkuTaken(prods, sku) == \E p \in DOMAIN prods : prods[p].sku = sku

ProductRow(category_id, sku, unit_price, quantity) ==
    [category_id |-> category_id, sku |-> sku, unit_price |-> unit_price,
     quantity |-> quantity]

InitialStockRow(p, quantity) ==
    HistoryRow(p, "initial_stock", quantity, 0, quantity, NoRef, "none")

\* the first commit of add_product (lines 493-504); the UNIQUE constraint on
\* product.sku fails it: internal error, rollback
AddProductCommit(category_id, sku, unit_price, quantity) ==
    IF SkuTaken(products, sku) THEN [ok |-> FALSE, products |-> products]
    ELSE [ok |-> TRUE,
          products |-> With(products, NextId(DOMAIN products),
                            ProductRow(category_id, sku, unit_price, quantity))]

add_product(category_id, sku, unit_price, quantity) ==
    /\ inflight = NoReq
    /\ IF ~session THEN LoginRedirect
       ELSE LET c == AddProductCommit(category_id, sku, unit_price, quantity)
                id == NextId(DOMAIN products)
            IN  IF ~c.ok THEN InternalError
                ELSE /\ id \in ProductIds
                     /\ products' = c.products
                     /\ IF quantity > 0
                        THEN /\ Len(ledger) < MaxLedger
                             /\ ledger' = Append(ledger, InitialStockRow(id, quantity))
                        ELSE ledger' = ledger
                     /\ resp' = Response("add_product", "success")
                     /\ UNCHANGED <<session, parties, categories, sales, purchases, inflight, workers>>

\* add_product up to its first commit (lines 485-504); with stock to record the
\* request goes on to its second commit
add_product_commit(category_id, sku, unit_price, quantity) ==
    /\ inflight = NoReq
    /\ IF ~session THEN LoginRedirect
       ELSE LET c == AddProductCommit(category_id, sku, unit_price, quantity)
                id == NextId(DOMAIN products)
            IN  IF ~c.ok THEN InternalError
                ELSE /\ id \in ProductIds
                     /\ products' = c.products
                     /\ IF quantity > 0
                        THEN /\ Len(ledger) < MaxLedger
                             /\ inflight' = [op |-> "add_product", id |-> id,
                                             quantity |-> quantity]
                             /\ resp' = resp
                        ELSE /\ inflight' = NoReq
                             /\ resp' = Response("add_product", "success")
                     /\ UNCHANGED <<session, parties, categories, sales, purchases, ledger,
                                    workers>>

\* add_product from its first commit to its second (lines 506-519)
add_product_history ==
    /\ inflight # NoReq
    /\ ledger' = Append(ledger, InitialStockRow(inflight.id, inflight.quantity))
    /\ inflight' = NoReq
    /\ resp' = Response("add_product", "success")
    /\ UNCHANGED <<session, parties, categories, products, sales, purchases, workers>>

\* the second commit of add_product fails: the 500 handler rolls back what is
\* not committed, and the product of the first commit stays
add_product_fault ==
    /\ inflight # NoReq
    /\ inflight' = NoReq
    /\ resp' = Response("internal_error", "danger")
    /\ UNCHANGED <<session, data, workers>>

\* a handler with a single commit fails before it: the 500 handler rolls back
handler_fault ==
    /\ inflight = NoReq
    /\ session
    /\ InternalError

\* mutant of edit_product: the form also resets the quantity
edit_product_resetting(id, category_id, sku, unit_price) ==
    /\ inflight = NoReq
    /\ IF ~session THEN LoginRedirect
       ELSE IF id \notin DOMAIN products THEN NotFound
       ELSE /\ products' = [products EXCEPT ![id].category_id = category_id,
                                             ![id].unit_price = unit_price,
                                             ![id].sku = sku,
                                             ![id].quantity = 0]
            /\ resp' = Response("edit_product", "success")
            /\ UNCHANGED <<session, parties, categories, sales, purchases, ledger, inflight, workers>>

edit_product(id, category_id, sku, unit_price) ==
    /\ inflight = NoReq
    /\ IF ~session THEN LoginRedirect
       ELSE IF id \notin DOMAIN products THEN NotFound
       ELSE IF SkuTaken(Without(products, id), sku)
            THEN InternalError
       ELSE /\ products' = [products EXCEPT ![id].category_id = category_id,
                                             ![id].unit_price = unit_price,
                                             ![id].sku = sku]
            /\ resp' = Response("edit_product", "success")
            /\ UNCHANGED <<session, parties, categories, sales, purchases, ledger, inflight, workers>>

\* mutant of delete_product: the stock_history rows of the product go with it
delete_product_cascading(id) ==
    /\ inflight = NoReq
    /\ IF ~session THEN LoginRedirect
       ELSE IF id \notin DOMAIN products THEN NotFound
       ELSE /\ products' = Without(products, id)
            /\ ledger' = SelectSeq(ledger, LAMBDA r : r.product_id # id)
            /\ resp' = Response("delete_product", "success")
            /\ UNCHANGED <<session, parties, categories, sales, purchases, inflight, workers>>

\* mutant of delete_product: the route without login_required
delete_product_open(id) ==
    /\ inflight = NoReq
    /\ IF id \notin DOMAIN products THEN NotFound
       ELSE /\ products' = Without(products, id)
            /\ resp' = Response("delete_product", "success")
            /\ UNCHANGED <<session, parties, categories, sales, purchases, ledger, inflight, workers>>

delete_product(id) ==
    /\ inflight = NoReq
    /\ IF ~session THEN LoginRedirect
       ELSE IF id \notin DOMAIN products THEN NotFound
       ELSE /\ products' = Without(products, id)
            /\ resp' = Response("delete_product", "success")
            /\ UNCHANGED <<session, parties, categories, sales, purchases, ledger, inflight, workers>>

----------------------------------------------------------------------------
(* Stock adjustment *)

\* mutant of AdjustedQuantity: a subtraction stops at zero
AdjustedQuantityFloored(previous_qty, adjustment_type, quantity) ==
    IF adjustment_type = "add" THEN previous_qty + quantity
    ELSE IF previous_qty < quantity THEN 0 ELSE previous_qty - quantity

AdjustedQuantity(previous_qty, adjustment_type, quantity) ==
    IF adjustment_type = "add" THEN previous_qty + quantity ELSE previous_qty - quantity

\* mutant of QuantityChange: the delta recorded without its sign
QuantityChangeUnsigned(adjustment_type, quantity) == quantity

QuantityChange(adjustment_type, quantity) ==
    IF adjustment_type = "add" THEN quantity ELSE -quantity

adjust_stock(id, adjustment_type, quantity, reason) ==
    /\ inflight = NoReq
    /\ IF ~session THEN LoginRedirect
       ELSE IF id \notin DOMAIN products THEN NotFound
       ELSE LET previous_qty == products[id].quantity
                new_qty == AdjustedQuantity(previous_qty, adjustment_type, quantity)
            IN  /\ Len(ledger) < MaxLedger
                /\ products' = SetQuantity(products, id, new_qty)
                /\ ledger' = Append(ledger,
                       HistoryRow(id, reason, QuantityChange(adjustment_type, quantity),
                                  previous_qty, new_qty, NoRef, "none"))
                /\ resp' = Response("adjust_stock", "success")
                /\ UNCHANGED <<session, parties, categories, sales, purchases, inflight, workers>>

----------------------------------------------------------------------------
(* Supplier and customer routes *)

add_supplier(name) ==
    /\ inflight = NoReq
    /\ IF ~session THEN LoginRedirect
       ELSE /\ NextId(DOMAIN suppliers) \in SupplierIds
            /\ suppliers' = With(suppliers, NextId(DOMAIN suppliers), [name |-> name])
            /\ resp' = Response("add_supplier", "success")
            /\ UNCHANGED <<session, categories, products, customers, sales, purchases,
                           ledger, inflight, workers>>

edit_supplier(id, name) ==
    /\ inflight = NoReq
    /\ IF ~session THEN LoginRedirect
       ELSE IF id \notin DOMAIN suppliers THEN NotFound
       ELSE /\ suppliers' = [suppliers EXCEPT ![id].name = name]
            /\ resp' = Response("edit_supplier", "success")
            /\ UNCHANGED <<session, categories, products, customers, sales, purchases,
                           ledger, inflight, workers>>

\* deleting a supplier sets supplier_id of its purchase orders to NULL (the
\* purchase_orders backref, line 247)
delete_supplier(id) ==
    /\ inflight = NoReq
    /\ IF ~session THEN LoginRedirect
       ELSE IF id \notin DOMAIN suppliers THEN NotFound
       ELSE /\ suppliers' = Without(suppliers, id)
            /\ purchases' = [o \in DOMAIN purchases |->
                                IF purchases[o].supplier_id = id
                                THEN [purchases[o] EXCEPT !.supplier_id = NoRef]
                                ELSE purchases[o]]
            /\ resp' = Response("delete_supplier", "success")
            /\ UNCHANGED <<session, categories, products, customers, sales, ledger,
                           inflight, workers>>

\* the form route (lines 700-713); the JSON route /api/customer/add (lines
\* 753-770) writes the same row
add_customer(name) ==
    /\ inflight = NoReq
    /\ IF ~session THEN LoginRedirect
       ELSE /\ NextId(DOMAIN customers) \in CustomerIds
            /\ customers' = With(customers, NextId(DOMAIN customers), [name |-> name])
            /\ resp' = Response("add_customer", "success")
            /\ UNCHANGED <<session, categories, products, suppliers, sales, purchases,
                           ledger, inflight, workers>>

edit_customer(id, name) ==
    /\ inflight = NoReq
    /\ IF ~session THEN LoginRedirect
       ELSE IF id \notin DOMAIN customers THEN NotFound
       ELSE /\ customers' = [customers EXCEPT ![id].name = name]
            /\ resp' = Response("edit_customer", "success")
            /\ UNCHANGED <<session, categories, products, suppliers, sales, purchases,
                           ledger, inflight, workers>>

\* deleting a customer sets customer_id of its sales to NULL (the sales backref,
\* line 220)
delete_customer(id) ==
    /\ inflight = NoReq
    /\ IF ~session THEN LoginRedirect
       ELSE IF id \notin DOMAIN customers THEN NotFound
       ELSE /\ customers' = Without(customers, id)
            /\ sales' = [o \in DOMAIN sales |->
                            IF sales[o].customer_id = id
                            THEN [sales[o] EXCEPT !.customer_id = NoRef]
                            ELSE sales[o]]
            /\ resp' = Response("delete_customer", "success")
            /\ UNCHANGED <<session, categories, products, suppliers, purchases, ledger,
                           inflight, workers>>

\* the pages and exports that only read (dashboard, lists, invoices, reports,
\* exports): no commit
view(page) ==
    /\ inflight = NoReq
    /\ IF ~session THEN LoginRedirect ELSE Reply(page, "ok")

----------------------------------------------------------------------------
(* Sales routes *)

\* mutant of InsufficientStock: only asks whether the product is in stock at all
OutOfStock(prods, line) == prods[line.product_id].quantity < 1

\* the stock check of one submitted line (line 819)
InsufficientStock(prods, line) == prods[line.product_id].quantity < line.quantity

\* the first loop of create_sale (lines 811-830): "ok" when it runs to its end,
\* "danger" at the first line short of stock, "internal_error" at the first line
\* whose product does not exist (Product.query.get gives None)
RECURSIVE CheckSaleLines(_, _)
CheckSaleLines(prods, form) ==
    IF form = <<>> THEN "ok"
    ELSE IF Head(form).product_id \notin DOMAIN prods THEN "internal_error"
    ELSE IF InsufficientStock(prods, Head(form)) THEN "danger"
    ELSE CheckSaleLines(prods, Tail(form))

\* mutant of SaleRow: the delta recorded without its sign
SaleRowUnsigned(item, previous_qty, sale_id) ==
    HistoryRow(item.product_id, "sale", item.quantity, previous_qty,
               previous_qty - item.quantity, sale_id, "sale")

SaleRow(item, previous_qty, sale_id) ==
    HistoryRow(item.product_id, "sale", -item.quantity, previous_qty,
               previous_qty - item.quantity, sale_id, "sale")

\* mutant of SellItems: every line decrements the quantity read before the loop
RECURSIVE SellItemsStale(_, _, _, _)
SellItemsStale(prods, led, items, sale_id) ==
    IF items = <<>> THEN [products |-> prods, ledger |-> led]
    ELSE LET item == Head(items)
             previous_qty == products[item.product_id].quantity
         IN  SellItemsStale(SetQuantity(prods, item.product_id, previous_qty - item.quantity),
                            Append(led, SaleRow(item, previous_qty, sale_id)),
                            Tail(items), sale_id)

\* the second loop of create_sale (lines 842-867): per item, in order, decrement
\* the product and add its stock_history row
RECURSIVE SellItems(_, _, _, _)
SellItems(prods, led, items, sale_id) ==
    IF items = <<>> THEN [products |-> prods, ledger |-> led]
    ELSE LET item == Head(items)
             previous_qty == prods[item.product_id].quantity
         IN  SellItems(SetQuantity(prods, item.product_id, previous_qty - item.quantity),
                       Append(led, SaleRow(item, previous_qty, sale_id)),
                       Tail(items), sale_id)

\* the subtotal of one submitted line (line 815)
Subtotal(line) == line.quantity * line.unit_price

\* mutant of SaleItems: the subtotal is the unit price, whatever the quantity
SaleItemsUnitPrice(form) ==
    [i \in 1..Len(form) |->
        [product_id |-> form[i].product_id, quantity |-> form[i].quantity,
         unit_price |-> form[i].unit_price, subtotal |-> form[i].unit_price]]

\* the sale_items the first loop of create_sale collects (lines 823-828)
SaleItems(form) ==
    [i \in 1..Len(form) |->
        [product_id |-> form[i].product_id, quantity |-> form[i].quantity,
         unit_price |-> form[i].unit_price, subtotal |-> Subtotal(form[i])]]

\* total_amount as the first loop of create_sale accumulates it (lines 808, 830)
RECURSIVE TotalAmount(_)
TotalAmount(items) ==
    IF items = <<>> THEN 0
    ELSE TotalAmount(SubSeq(items, 1, Len(items) - 1)) + items[Len(items)].subtotal

create_sale(customer_id, form) ==
    /\ inflight = NoReq
    /\ IF ~session THEN LoginRedirect
       ELSE IF form = <<>> THEN Reply("create_sale", "warning")
       ELSE IF CheckSaleLines(products, form) # "ok"
            THEN IF CheckSaleLines(products, form) = "danger"
                 THEN Reply("create_sale", "danger")
                 ELSE InternalError
       ELSE LET sale_id == NextId(DOMAIN sales)
                sale_items == SaleItems(form)
                sold == SellItems(products, ledger, sale_items, sale_id)
            IN  /\ sale_id \in SaleIds
                /\ Len(ledger) + Len(form) <= MaxLedger
                /\ sales' = With(sales, sale_id,
                                 [customer_id |-> customer_id,
                                  total_amount |-> TotalAmount(sale_items),
                                  items |-> sale_items])
                /\ products' = sold.products
                /\ ledger' = sold.ledger
                /\ resp' = Response("create_sale", "success")
                /\ UNCHANGED <<session, parties, categories, purchases, inflight, workers>>

\* mutant of RestoreStock: the quantity is taken off again instead of put back
RECURSIVE RestoreStockSubtract(_, _)
RestoreStockSubtract(prods, items) ==
    IF items = <<>> THEN [ok |-> TRUE, products |-> prods]
    ELSE IF Head(items).product_id \notin DOMAIN prods
         THEN [ok |-> FALSE, products |-> prods]
    ELSE LET item == Head(items)
         IN  RestoreStockSubtract(SetQuantity(prods, item.product_id,
                                      prods[item.product_id].quantity - item.quantity),
                                  Tail(items))

\* the loop of delete_sale (lines 893-896); a missing product faults the request
RECURSIVE RestoreStock(_, _)
RestoreStock(prods, items) ==
    IF items = <<>> THEN [ok |-> TRUE, products |-> prods]
    ELSE IF Head(items).product_id \notin DOMAIN prods
         THEN [ok |-> FALSE, products |-> prods]
    ELSE LET item == Head(items)
         IN  RestoreStock(SetQuantity(prods, item.product_id,
                                      prods[item.product_id].quantity + item.quantity),
                          Tail(items))

\* mutant of delete_sale: the stock_history rows of the sale go with it
delete_sale_purging(id) ==
    /\ inflight = NoReq
    /\ IF ~session THEN LoginRedirect
       ELSE IF id \notin DOMAIN sales THEN NotFound
       ELSE LET restored == RestoreStock(products, sales[id].items)
            IN  IF ~restored.ok THEN InternalError
                ELSE /\ products' = restored.products
                     /\ sales' = Without(sales, id)
                     /\ ledger' = SelectSeq(ledger, LAMBDA r :
                            ~(r.reference_type = "sale" /\ r.reference_id = id))
                     /\ resp' = Response("delete_sale", "success")
                     /\ UNCHANGED <<session, parties, categories, purchases, inflight, workers>>

delete_sale(id) ==
    /\ inflight = NoReq
    /\ IF ~session THEN LoginRedirect
       ELSE IF id \notin DOMAIN sales THEN NotFound
       ELSE LET restored == RestoreStock(products, sales[id].items)
            IN  IF ~restored.ok THEN InternalError
                ELSE /\ products' = restored.products
                     /\ sales' = Without(sales, id)
                     /\ resp' = Response("delete_sale", "success")
                     /\ UNCHANGED <<session, parties, categories, purchases, ledger, inflight, workers>>

----------------------------------------------------------------------------
(* Purchase order routes *)

\* the first loop of create_purchase (lines 949-965): rows with an empty product
\* id are skipped
PurchaseItems(form) == SelectSeq(form, LAMBDA l : l # Blank)

create_purchase(supplier_id, form) ==
    /\ inflight = NoReq
    /\ IF ~session THEN LoginRedirect
       ELSE IF form = <<>> THEN Reply("create_purchase", "warning")
       ELSE LET purchase_id == NextId(DOMAIN purchases)
            IN  /\ purchase_id \in PurchaseIds
                /\ purchases' = With(purchases, purchase_id,
                                     [supplier_id |-> supplier_id, status |-> "pending",
                                      items |-> PurchaseItems(form)])
                /\ resp' = Response("create_purchase", "success")
                /\ UNCHANGED <<session, parties, categories, products, sales, ledger, inflight, workers>>

\* mutant of AlreadyReceived: the status compared with a misspelt word
AlreadyRecieved(purchase) == purchase.status = "recieved"

AlreadyReceived(purchase) == purchase.status = "received"

\* mutant of PurchaseRow: the row does not name the purchase order
PurchaseRowNoReference(item, previous_qty, purchase_id) ==
    HistoryRow(item.product_id, "purchase", item.quantity, previous_qty,
               previous_qty + item.quantity, NoRef, "none")

PurchaseRow(item, previous_qty, purchase_id) ==
    HistoryRow(item.product_id, "purchase", item.quantity, previous_qty,
               previous_qty + item.quantity, purchase_id, "purchase")

\* the loop of receive_purchase (lines 1002-1018); a missing product faults the
\* request
RECURSIVE ReceiveItems(_, _, _, _)
ReceiveItems(prods, led, items, purchase_id) ==
    IF items = <<>> THEN [ok |-> TRUE, products |-> prods, ledger |-> led]
    ELSE IF Head(items).product_id \notin DOMAIN prods
         THEN [ok |-> FALSE, products |-> prods, ledger |-> led]
    ELSE LET item == Head(items)
             previous_qty == prods[item.product_id].quantity
         IN  ReceiveItems(SetQuantity(prods, item.product_id, previous_qty + item.quantity),
                          Append(led, PurchaseRow(item, previous_qty, purchase_id)),
                          Tail(items), purchase_id)

receive_purchase(id) ==
    /\ inflight = NoReq
    /\ IF ~session THEN LoginRedirect
       ELSE IF id \notin DOMAIN purchases THEN NotFound
       ELSE IF AlreadyReceived(purchases[id]) THEN Reply("receive_purchase", "warning")
       ELSE LET received == ReceiveItems(products, ledger, purchases[id].items, id)
            IN  IF ~received.ok THEN InternalError
                ELSE /\ Len(received.ledger) <= MaxLedger
                     /\ products' = received.products
                     /\ ledger' = received.ledger
                     /\ purchases' = [purchases EXCEPT ![id].status = "received"]
                     /\ resp' = Response("receive_purchase", "success")
                     /\ UNCHANGED <<session, parties, categories, sales, inflight, workers>>

\* mutant of delete_purchase: the status of the order is not looked at
delete_purchase_unguarded(id) ==
    /\ inflight = NoReq
    /\ IF ~session THEN LoginRedirect
       ELSE IF id \notin DOMAIN purchases THEN NotFound
       ELSE /\ purchases' = Without(purchases, id)
            /\ resp' = Response("delete_purchase", "success")
            /\ UNCHANGED <<session, parties, categories, products, sales, ledger, inflight, workers>>

delete_purchase(id) ==
    /\ inflight = NoReq
    /\ IF ~session THEN LoginRedirect
       ELSE IF id \notin DOMAIN purchases THEN NotFound
       ELSE IF AlreadyReceived(purchases[id]) THEN Reply("delete_purchase", "danger")
       ELSE /\ purchases' = Without(purchases, id)
            /\ resp' = Response("delete_purchase", "success")
            /\ UNCHANGED <<session, parties, categories, products, sales, ledger, inflight, workers>>

----------------------------------------------------------------------------
(* Concurrent requests.  Each request has its own database session; a SELECT   *)
(* sees what is committed, the writes of a request reach the database in one   *)
(* transaction at its commit, and SQLite runs write transactions one at a      *)
(* time.  A request is two steps: what it does up to its last read before it   *)
(* writes, and its writes with the commit.                                     *)

\* the products a form names
FormProducts(form) == {form[i].product_id : i \in 1..Len(form)}

\* the product whose object the variable product (line 817) still refers to when
\* the second loop asks for it first: the product of the last line, if the first
\* line names it too
Held(form) ==
    IF form[1].product_id = form[Len(form)].product_id
    THEN {form[1].product_id} ELSE {}

\* the Product rows as the second loop gets them from Product.query.get (line
\* 852).  The identity map of the session refers weakly to objects that are not
\* modified: an object the handler still holds is found there, with the quantity
\* read in the first loop; one it no longer holds is found there too ("cached")
\* or was collected and is read again ("fresh"), as the interpreter collects
Loaded(form, seen, read) ==
    [p \in DOMAIN products |->
        IF p \in DOMAIN seen /\ (p \in Held(form) \/ read = "cached")
        THEN [products[p] EXCEPT !.quantity = seen[p]]
        ELSE products[p]]

\* create_sale up to the end of its first loop (lines 797-830)
sale_check(w, form) ==
    /\ inflight = NoReq
    /\ workers[w].pc # "checked"
    /\ IF ~session THEN LoginRedirect
       ELSE IF form = <<>> THEN Reply("create_sale", "warning")
       ELSE IF CheckSaleLines(products, form) # "ok"
            THEN IF CheckSaleLines(products, form) = "danger"
                 THEN Reply("create_sale", "danger")
                 ELSE InternalError
       ELSE /\ workers' = [workers EXCEPT ![w] =
                              [pc |-> "checked", form |-> form,
                               seen |-> [p \in FormProducts(form) |->
                                            products[p].quantity]]]
            /\ UNCHANGED <<session, data, inflight, resp>>

\* mutant of sale_commit: the stock is checked again in the transaction that
\* writes
sale_commit_rechecking(w, read) ==
    /\ inflight = NoReq
    /\ workers[w].pc = "checked"
    /\ LET form == workers[w].form
           sale_id == NextId(DOMAIN sales)
           sale_items == SaleItems(form)
           sold == SellItems(products, ledger, sale_items, sale_id)
       IN  /\ sale_id \in 1..(MaxSales + 1)
           /\ Len(ledger) + Len(form) <= MaxLedger + 1
           /\ workers' = [workers EXCEPT ![w].pc = "done"]
           /\ IF CheckSaleLines(products, form) # "ok"
              THEN /\ resp' = Response("create_sale", "danger")
                   /\ UNCHANGED <<session, data, inflight>>
              ELSE /\ sales' = With(sales, sale_id,
                                    [customer_id |-> NoRef,
                                     total_amount |-> TotalAmount(sale_items),
                                     items |-> sale_items])
                   /\ products' = sold.products
                   /\ ledger' = sold.ledger
                   /\ resp' = Response("create_sale", "success")
                   /\ UNCHANGED <<session, parties, categories, purchases, inflight>>

\* create_sale from its flush to its commit (lines 832-872): no stock check,
\* each product decremented from the quantity of the object the session holds
sale_commit(w, read) ==
    /\ inflight = NoReq
    /\ workers[w].pc = "checked"
    /\ LET form == workers[w].form
           sale_id == NextId(DOMAIN sales)
           sale_items == SaleItems(form)
           sold == SellItems(Loaded(form, workers[w].seen, read), ledger,
                             sale_items, sale_id)
       IN  /\ sale_id \in 1..(MaxSales + 1)
           /\ Len(ledger) + Len(form) <= MaxLedger + 1
           /\ sales' = With(sales, sale_id,
                            [customer_id |-> NoRef,
                             total_amount |-> TotalAmount(sale_items),
                             items |-> sale_items])
           /\ products' = sold.products
           /\ ledger' = sold.ledger
           /\ workers' = [workers EXCEPT ![w].pc = "done"]
           /\ resp' = Response("create_sale", "success")
           /\ UNCHANGED <<session, parties, categories, purchases, inflight>>

\* a request that ends with the answer (op, status) and writes nothing
Ends(w, op, status) ==
    /\ workers' = [workers EXCEPT ![w] = [pc |-> "done"]]
    /\ resp' = Response(op, status)
    /\ UNCHANGED <<session, data, inflight>>

\* receive_purchase up to its test of the status (lines 996-1000), on the row
\* as committed when the request reads it; purchase.purchase_items is loaded for
\* the loop (line 1002)
receive_check(w, id) ==
    /\ inflight = NoReq
    /\ workers[w].pc \in {"idle", "done"}
    /\ IF ~session THEN LoginRedirect
       ELSE IF id \notin DOMAIN purchases THEN NotFound
       ELSE IF AlreadyReceived(purchases[id]) THEN Reply("receive_purchase", "warning")
       ELSE /\ workers' = [workers EXCEPT ![w] =
                              [pc |-> "receiving", id |-> id,
                               items |-> purchases[id].items]]
            /\ UNCHANGED <<session, data, inflight, resp>>

\* the first pass of the loop (lines 1003-1006): Product.query.get reads the
\* committed row of the first line's product, and the new quantity is set on
\* the object; nothing is sent to the database yet
receive_load(w) ==
    /\ inflight = NoReq
    /\ workers[w].pc = "receiving"
    /\ LET items == workers[w].items
       IN  IF items = <<>>
           THEN /\ workers' = [workers EXCEPT ![w].pc = "loaded"]
                /\ UNCHANGED <<session, data, inflight, resp>>
           ELSE IF Head(items).product_id \notin DOMAIN products
           THEN Ends(w, "internal_error", "danger")
           ELSE /\ workers' = [workers EXCEPT ![w] =
                                  [pc |-> "loaded", id |-> workers[w].id, items |-> items,
                                   seen |-> products[Head(items).product_id].quantity]]
                /\ UNCHANGED <<session, data, inflight, resp>>

\* a line of items names a product that is not in the table
Gone(items) == \E i \in 1..Len(items) : items[i].product_id \notin DOMAIN products

\* the Product rows as the rest of the loop finds them: the first line's
\* product with the quantity read by the first pass, the others as committed
LoadedFirst(items, seen) ==
    IF items = <<>> THEN products
    ELSE SetQuantity(products, Head(items).product_id, seen)

\* the rest of the loop and the commit (lines 1002-1021).  The flush before
\* the next Product.query.get, or the commit if there is none, opens the write
\* transaction, so what follows the first read is one step; an UPDATE of a row
\* that is gone, or a line whose product is gone, faults the request
receive_commit(w) ==
    /\ inflight = NoReq
    /\ workers[w].pc = "loaded"
    /\ LET id == workers[w].id
           items == workers[w].items
       IN  IF \/ id \notin DOMAIN purchases
              \/ Gone(items)
           THEN Ends(w, "internal_error", "danger")
           ELSE LET received == ReceiveItems(LoadedFirst(items, workers[w].seen),
                                             ledger, items, id)
                IN  /\ Len(received.ledger) <= MaxLedger + MaxLines
                    /\ products' = received.products
                    /\ ledger' = received.ledger
                    /\ purchases' = [purchases EXCEPT ![id].status = "received"]
                    /\ workers' = [workers EXCEPT ![w] = [pc |-> "done"]]
                    /\ resp' = Response("receive_purchase", "success")
                    /\ UNCHANGED <<session, parties, categories, sales, inflight>>

----------------------------------------------------------------------------
(* Specifications *)

AuthStep ==
    \/ \E ok \in BOOLEAN : login(ok)
    \/ logout

CategoryStep ==
    \/ \E name \in Names : add_category(name)
    \/ \E id \in CategoryIds, name \in Names : edit_category(id, name)
    \/ \E id \in CategoryIds : delete_category(id)

ProductStep ==
    \/ \E c \in CategoryIds, sku \in Skus, price \in ListPrices, q \in InitialQtys :
           add_product(c, sku, price, q)
    \/ \E id \in ProductIds, c \in CategoryIds, sku \in Skus, price \in ListPrices :
           edit_product(id, c, sku, price)
    \/ \E id \in ProductIds : delete_product(id)

StockStep ==
    \/ \E id \in ProductIds, t \in AdjustmentTypes, q \in AdjustQtys, r \in Reasons :
           adjust_stock(id, t, q, r)
    \/ \E form \in SaleForms : create_sale(NoRef, form)
    \/ \E id \in SaleIds : delete_sale(id)
    \/ \E form \in PurchaseForms : create_purchase(NoRef, form)
    \/ \E id \in PurchaseIds : receive_purchase(id)
    \/ \E id \in PurchaseIds : delete_purchase(id)

PartyStep ==
    \/ \E name \in PartyNames : add_supplier(name)
    \/ \E id \in SupplierIds, name \in PartyNames : edit_supplier(id, name)
    \/ \E id \in SupplierIds : delete_supplier(id)
    \/ \E name \in PartyNames : add_customer(name)
    \/ \E id \in CustomerIds, name \in PartyNames : edit_customer(id, name)
    \/ \E id \in CustomerIds : delete_customer(id)
    \/ \E page \in Pages : view(page)

Next == AuthStep \/ CategoryStep \/ ProductStep \/ PartyStep \/ StockStep

Spec == Init /\ [][Next]_vars

\* the stock routes with the product routes that create and delete what they act
\* on, for an operator who stays logged in and creates products with stock
NextStock ==
    \/ \E ok \in BOOLEAN : login(ok)
    \/ \E sku \in Skus, price \in ListPrices : add_product(1, sku, price, MaxQty)
    \/ \E id \in ProductIds : delete_product(id)
    \/ StockStep

SpecStock == Init /\ [][NextStock]_vars

\* the category and product routes
NextCatalog == AuthStep \/ CategoryStep \/ ProductStep

SpecCatalog == Init /\ [][NextCatalog]_vars

\* the four routes that move stock with its ledger row, each commit a step, and
\* the faults that can end a request
NextFault ==
    \/ \E ok \in BOOLEAN : login(ok)
    \/ \E sku \in Skus, price \in ListPrices : add_product_commit(1, sku, price, MaxQty)
    \/ add_product_history
    \/ add_product_fault
    \/ handler_fault
    \/ \E id \in ProductIds, t \in AdjustmentTypes, q \in AdjustQtys, r \in Reasons :
           adjust_stock(id, t, q, r)
    \/ \E form \in SaleForms : create_sale(NoRef, form)
    \/ \E form \in PurchaseForms : create_purchase(NoRef, form)
    \/ \E id \in PurchaseIds : receive_purchase(id)

SpecFault == Init /\ [][NextFault]_vars

\* every route, for an operator who logs in and out and keeps one category, one
\* product, one supplier, one customer, one sale and one purchase order
OfficeStep ==
    \/ add_category("Electronics")
    \/ edit_category(1, "Furniture")
    \/ delete_category(1)
    \/ \E price \in ListPrices : add_product(1, "ELEC001", price, MaxQty)
    \/ \E price \in ListPrices : edit_product(1, 1, "ELEC002", price)
    \/ delete_product(1)
    \/ add_supplier("Acme")
    \/ edit_supplier(1, "Globex")
    \/ delete_supplier(1)
    \/ add_customer("Acme")
    \/ edit_customer(1, "Globex")
    \/ delete_customer(1)
    \/ view("reports")
    \/ adjust_stock(1, "subtract", 1, "manual_adjustment")
    \/ \E c \in CustomerIds \cup {NoRef}, price \in ListPrices :
           create_sale(c, <<SaleLine(1, 1, price)>>)
    \/ delete_sale(1)
    \/ \E s \in SupplierIds \cup {NoRef} : create_purchase(s, <<Line(1, 1)>>)
    \/ receive_purchase(1)
    \/ delete_purchase(1)

NextOffice == AuthStep \/ OfficeStep

SpecOffice == Init /\ [][NextOffice]_vars

\* the routes that write a sale or what a sale refers to, with prices that differ
NextPricing ==
    \/ \E ok \in BOOLEAN : login(ok)
    \/ \E price \in UnitPrices : add_product(1, "ELEC001", price, MaxQty)
    \/ \E price \in UnitPrices : edit_product(1, 1, "ELEC001", price)
    \/ delete_product(1)
    \/ add_customer("Acme")
    \/ edit_customer(1, "Globex")
    \/ delete_customer(1)
    \/ \E t \in AdjustmentTypes : adjust_stock(1, t, 1, "manual_adjustment")
    \/ \E c \in CustomerIds \cup {NoRef}, form \in PricedSaleForms : create_sale(c, form)
    \/ delete_sale(1)

SpecPricing == Init /\ [][NextPricing]_vars

\* two create_sale requests served at the same time, on products with stock
NextRace ==
    \/ \E ok \in BOOLEAN : login(ok)
    \/ \E sku \in Skus, price \in ListPrices : add_product(1, sku, price, MaxQty)
    \/ \E w \in Workers, form \in SaleForms : sale_check(w, form)
    \/ \E w \in Workers, read \in Reads : sale_commit(w, read)

SpecRace == Init /\ [][NextRace]_vars

\* the purchase order routes with the routes that write or delete what an order
\* refers to: its supplier and the products of its lines
NextOrders ==
    \/ AuthStep
    \/ \E sku \in Skus, price \in ListPrices : add_product(1, sku, price, MaxQty)
    \/ \E id \in ProductIds : delete_product(id)
    \/ \E name \in PartyNames : add_supplier(name)
    \/ \E id \in SupplierIds, name \in PartyNames : edit_supplier(id, name)
    \/ \E id \in SupplierIds : delete_supplier(id)
    \/ \E s \in SupplierIds \cup {NoRef}, form \in PurchaseForms : create_purchase(s, form)
    \/ \E id \in PurchaseIds : receive_purchase(id)
    \/ \E id \in PurchaseIds : delete_purchase(id)

SpecOrders == Init /\ [][NextOrders]_vars

\* two receive_purchase requests served at the same time
NextReceive ==
    \/ \E ok \in BOOLEAN : login(ok)
    \/ \E sku \in Skus, price \in ListPrices : add_product(1, sku, price, MaxQty)
    \/ \E form \in PurchaseForms : create_purchase(NoRef, form)
    \/ \E w \in Workers, id \in PurchaseIds : receive_check(w, id)
    \/ \E w \in Workers : receive_load(w)
    \/ \E w \in Workers : receive_commit(w)

SpecReceive == Init /\ [][NextReceive]_vars

----------------------------------------------------------------------------
(* Properties *)

\* the sum of quantity_change over the rows of led that are for product p
RECURSIVE DeltaSum(_, _)
DeltaSum(led, p) ==
    IF led = <<>> THEN 0
    ELSE (IF Head(led).product_id = p THEN Head(led).quantity_change ELSE 0)
         + DeltaSum(Tail(led), p)

\* the stock_history rows a step adds
Emitted == SubSeq(ledger', Len(ledger) + 1, Len(ledger'))

\* a step that answers an adjust_stock, create_sale or receive_purchase request, or
\* a request that the 404 or the 500 handler answered
StockRequest ==
    resp'.op \in {"adjust_stock", "create_sale", "receive_purchase",
                  "not_found_error", "internal_error"}

QuantityFollowsLedger ==
    /\ DOMAIN products' = DOMAIN products
    /\ SubSeq(ledger', 1, Len(ledger)) = ledger
    /\ \A p \in DOMAIN products :
           products'[p].quantity = products[p].quantity + DeltaSum(Emitted, p)

\* C1: every adjust_stock, create_sale and receive_purchase request changes each
\* product's quantity by exactly the sum of quantity_change over the stock_history
\* rows it adds for that product (and only adds rows), so over any sequence of
\* such requests the quantity is the one before the sequence plus the emitted deltas
C1_QuantityIsInitialPlusDeltas == [][StockRequest => QuantityFollowsLedger]_vars

\* C1 witness: an adjustment, a purchase receipt and a sale have all moved one
\* product, the sale last
C1_Witness ==
    /\ resp = Response("create_sale", "success")
    /\ \E p \in DOMAIN products :
          \A t \in {"manual_adjustment", "purchase", "sale"} :
             \E i \in 1..Len(ledger) :
                ledger[i].product_id = p /\ ledger[i].change_type = t

\* the sum of quantity over the lines of items that are for product p
RECURSIVE LineSum(_, _)
LineSum(items, p) ==
    IF items = <<>> THEN 0
    ELSE (IF Head(items).product_id = p THEN Head(items).quantity ELSE 0)
         + LineSum(Tail(items), p)

\* the lines of items before line i
Before(items, i) == SubSeq(items, 1, i - 1)

AllProductsExist(items) ==
    \A i \in 1..Len(items) : items[i].product_id \in DOMAIN products

LedgerGrowsBy(n) ==
    /\ Len(ledger') = Len(ledger) + n
    /\ SubSeq(ledger', 1, Len(ledger)) = ledger

\* a line of the form asks for more than its product's current quantity
SomeLineShort(form) ==
    \E i \in 1..Len(form) :
       /\ form[i].product_id \in DOMAIN products
       /\ products[form[i].product_id].quantity < form[i].quantity

\* C2: a create_sale request with a line that asks for more than its product's
\* current quantity writes nothing: the sale, sale_item and stock_history tables
\* and every product are as before, whatever the other lines
C2_ShortSaleRejectedInFull ==
    [][resp'.op \in {"create_sale", "internal_error"}
         => \A form \in SaleForms :
               (SomeLineShort(form) /\ create_sale(NoRef, form))
                  => (UNCHANGED data /\ resp'.status # "success")]_vars

\* C2 witness: a sale was refused for lack of stock while one product had stock
\* and another had none
C2_Witness ==
    /\ resp = Response("create_sale", "danger")
    /\ \E p, r \in DOMAIN products :
          products[p].quantity > 0 /\ products[r].quantity = 0
    /\ sales = <<>>

\* the number of stock_history rows that refer to purchase order id
ReceiptRows(id) ==
    Cardinality({i \in 1..Len(ledger) :
                    ledger[i].reference_type = "purchase" /\ ledger[i].reference_id = id})

\* C3: receive_purchase on an order whose status is "received" changes nothing
\* and answers with a warning; and in every state the stock_history rows of a
\* purchase order are one per line if it is received and none otherwise, so no
\* order adds to the stock twice
C3_ReceiveOnceOnly ==
    /\ [][\A id \in PurchaseIds :
             (/\ session
              /\ id \in DOMAIN purchases
              /\ purchases[id].status = "received"
              /\ receive_purchase(id))
                => (UNCHANGED data /\ resp' = Response("receive_purchase", "warning"))]_vars
    /\ [](\A id \in PurchaseIds :
             ReceiptRows(id) = IF id \in DOMAIN purchases /\ purchases[id].status = "received"
                               THEN Len(purchases[id].items) ELSE 0)

\* C3 witness: a received order with lines was asked to be received again
C3_Witness ==
    /\ resp = Response("receive_purchase", "warning")
    /\ \E id \in DOMAIN purchases :
          purchases[id].status = "received" /\ Len(purchases[id].items) > 0

\* what a successful create_sale of form leaves (lines 832-869)
SalePost(form) ==
    \E sale_id \in DOMAIN sales' \ DOMAIN sales :
       /\ DOMAIN sales' = DOMAIN sales \cup {sale_id}
       /\ LedgerGrowsBy(Len(form))
       /\ \A i \in 1..Len(form) :
             LET p == form[i].product_id
                 q == form[i].quantity
                 previous == products[p].quantity - LineSum(Before(form, i), p)
             IN  ledger'[Len(ledger) + i] =
                    [product_id |-> p, change_type |-> "sale", quantity_change |-> -q,
                     previous_quantity |-> previous, new_quantity |-> previous - q,
                     reference_id |-> sale_id, reference_type |-> "sale"]
       /\ DOMAIN products' = DOMAIN products
       /\ \A p \in DOMAIN products :
             products'[p].quantity = products[p].quantity - LineSum(form, p)

\* C4: a successful create_sale takes each line's quantity off its product and
\* adds exactly one stock_history row per line, in order: change_type "sale",
\* quantity_change minus the line's quantity, previous_quantity the product's
\* quantity just before the line, new_quantity that less the line's quantity,
\* reference the new sale; and no other row
C4_SaleLedgerRows ==
    [][resp' = Response("create_sale", "success")
         => \A form \in SaleForms : create_sale(NoRef, form) => SalePost(form)]_vars

\* C4 witness: a sale of two lines of one product went through, the second row
\* starting from the quantity the first left
C4_Witness ==
    /\ resp = Response("create_sale", "success")
    /\ Len(ledger) >= 2
    /\ LET a == ledger[Len(ledger) - 1]
           b == ledger[Len(ledger)]
       IN  /\ a.change_type = "sale" /\ b.change_type = "sale"
           /\ a.product_id = b.product_id
           /\ a.reference_id = b.reference_id
           /\ b.previous_quantity = a.new_quantity
           /\ a.reference_id \in DOMAIN sales

\* what the first receive_purchase of order id leaves (lines 1002-1021)
ReceiptPost(id) ==
    LET items == purchases[id].items
    IN  /\ resp' = Response("receive_purchase", "success")
        /\ purchases' = [purchases EXCEPT ![id].status = "received"]
        /\ LedgerGrowsBy(Len(items))
        /\ \A i \in 1..Len(items) :
              LET p == items[i].product_id
                  q == items[i].quantity
                  previous == products[p].quantity + LineSum(Before(items, i), p)
              IN  ledger'[Len(ledger) + i] =
                     [product_id |-> p, change_type |-> "purchase", quantity_change |-> q,
                      previous_quantity |-> previous, new_quantity |-> previous + q,
                      reference_id |-> id, reference_type |-> "purchase"]
        /\ DOMAIN products' = DOMAIN products
        /\ \A p \in DOMAIN products :
              products'[p].quantity = products[p].quantity + LineSum(items, p)

C6_QuantityAndLedgerPersistTogether ==
    inflight = NoReq =>
       \A p \in ProductIds :
          (IF p \in DOMAIN products THEN products[p].quantity ELSE 0) = DeltaSum(ledger, p)

\* C7: delete_category on a category that owns a product changes nothing and is
\* refused; on a category that owns none it removes that category and nothing else
C7_DeleteCategoryGuard ==
    [][\A id \in CategoryIds :
          (session /\ id \in DOMAIN categories /\ delete_category(id))
             => IF \E p \in DOMAIN products : products[p].category_id = id
                THEN UNCHANGED data /\ resp' = Response("delete_category", "danger")
                ELSE /\ categories' = [c \in DOMAIN categories \ {id} |-> categories[c]]
                     /\ UNCHANGED <<products, sales, purchases, ledger>>
                     /\ resp' = Response("delete_category", "success")]_vars

\* C7 witness: the deletion of a category that owns a product was refused, and
\* another category owns none
C7_Witness ==
    /\ resp = Response("delete_category", "danger")
    /\ \E c, d \in DOMAIN categories :
          /\ \E p \in DOMAIN products : products[p].category_id = c
          /\ \A p \in DOMAIN products : products[p].category_id # d

\* C8: delete_purchase on a received order changes nothing and is refused; on a
\* pending order it removes the order with its lines and changes no product and
\* no stock_history row; and no step removes an order that is not pending
C8_DeletePurchaseOnlyPending ==
    /\ [][\A id \in PurchaseIds :
             (session /\ id \in DOMAIN purchases /\ delete_purchase(id))
                => IF purchases[id].status = "received"
                   THEN UNCHANGED data /\ resp' = Response("delete_purchase", "danger")
                   ELSE /\ purchases[id].status = "pending"
                        /\ purchases' = [o \in DOMAIN purchases \ {id} |-> purchases[o]]
                        /\ UNCHANGED <<categories, products, sales, ledger>>
                        /\ resp' = Response("delete_purchase", "success")]_vars
    /\ [][\A id \in DOMAIN purchases \ DOMAIN purchases' :
             purchases[id].status = "pending"]_vars

\* C8 witness: the deletion of a received order with lines was refused
C8_Witness ==
    /\ resp = Response("delete_purchase", "danger")
    /\ \E id \in DOMAIN purchases :
          purchases[id].status = "received" /\ Len(purchases[id].items) > 0

\* C9: add_category with a name that exists and add_product with a SKU that
\* exists write nothing and answer with the route's own warning, not with the
\* internal-error response
C9_DuplicateKeyWarning ==
    [][/\ \A name \in Names :
             (/\ session
              /\ \E c \in DOMAIN categories : categories[c].name = name
              /\ add_category(name))
                => (UNCHANGED data /\ resp' = Response("add_category", "warning"))
       /\ \A c \in CategoryIds, sku \in Skus, price \in ListPrices, q \in InitialQtys :
             (/\ session
              /\ \E p \in DOMAIN products : products[p].sku = sku
              /\ add_product(c, sku, price, q))
                => (UNCHANGED data /\ resp' = Response("add_product", "warning"))]_vars

\* C10: right after a successful create_sale, the stock restoration of
\* delete_sale on the new sale finds every product and gives each the quantity
\* it had before the sale; and delete_sale on a sale whose lines name existing
\* products adds each line's quantity back to its product and removes the sale
\* with its lines
C10_DeleteSaleRestoresStock ==
    /\ [][resp' = Response("create_sale", "success")
            => \A sale_id \in DOMAIN sales' \ DOMAIN sales :
                  LET restored == RestoreStock(products', sales'[sale_id].items)
                  IN  /\ restored.ok
                      /\ DOMAIN restored.products = DOMAIN products
                      /\ \A p \in DOMAIN products :
                            restored.products[p].quantity = products[p].quantity]_vars
    /\ [][\A id \in SaleIds :
             (/\ session
              /\ id \in DOMAIN sales
              /\ AllProductsExist(sales[id].items)
              /\ delete_sale(id))
                => /\ resp' = Response("delete_sale", "success")
                   /\ sales' = [o \in DOMAIN sales \ {id} |-> sales[o]]
                   /\ DOMAIN products' = DOMAIN products
                   /\ \A p \in DOMAIN products :
                         products'[p].quantity =
                            products[p].quantity + LineSum(sales[id].items, p)]_vars

\* C10 witness: a sale of two lines was deleted and the product of its rows is
\* back at the quantity the first row started from
C10_Witness ==
    /\ resp = Response("delete_sale", "success")
    /\ Len(ledger) >= 2
    /\ LET a == ledger[Len(ledger) - 1]
           b == ledger[Len(ledger)]
       IN  /\ a.change_type = "sale" /\ b.change_type = "sale"
           /\ a.reference_id = b.reference_id
           /\ a.reference_id \notin DOMAIN sales
           /\ a.product_id = b.product_id
           /\ a.product_id \in DOMAIN products
           /\ products[a.product_id].quantity = a.previous_quantity

\* by how much product p's quantity is above the sum of its stock_history deltas
LedgerGap(prods, led, p) == prods[p].quantity - DeltaSum(led, p)

\* C11: delete_sale leaves the stock_history table as it is (no row added, none
\* of the sale's rows removed), so a successful deletion raises each product's
\* quantity above the sum of its stock_history deltas by exactly what it puts
\* back: where the two agreed before, the quantity is now the sum plus the
\* restored amount
C11_DeleteSaleKeepsLedger ==
    [][resp'.op \in {"delete_sale", "not_found_error", "internal_error"}
         => \A id \in SaleIds :
               (session /\ id \in DOMAIN sales /\ delete_sale(id))
                  => /\ ledger' = ledger
                     /\ resp'.status = "success" =>
                           /\ DOMAIN products' = DOMAIN products
                           /\ \A p \in DOMAIN products :
                                 LedgerGap(products', ledger', p) =
                                    LedgerGap(products, ledger, p)
                                       + LineSum(sales[id].items, p)]_vars

\* C11 witness: a sale was deleted, its rows are still in stock_history, and a
\* product it restored is above the sum of its deltas by the sale's quantity
C11_Witness ==
    /\ resp = Response("delete_sale", "success")
    /\ \E i \in 1..Len(ledger) :
          /\ ledger[i].reference_type = "sale"
          /\ ledger[i].reference_id \notin DOMAIN sales
          /\ ledger[i].product_id \in DOMAIN products
          /\ LedgerGap(products, ledger, ledger[i].product_id) = -ledger[i].quantity_change
          /\ LedgerGap(products, ledger, ledger[i].product_id) > 0

\* C12: adjust_stock with "add" and quantity m sets the product's quantity to
\* previous + m, and otherwise to previous - m with no floor at zero; either way
\* it adds exactly one stock_history row: change_type the reason, quantity_change
\* +m or -m, previous_quantity the old and new_quantity the new quantity
C12_AdjustStockNoFloor ==
    [][resp'.op = "adjust_stock"
         => \A id \in ProductIds, t \in AdjustmentTypes, m \in AdjustQtys, r \in Reasons :
               (session /\ id \in DOMAIN products /\ adjust_stock(id, t, m, r))
                  => LET previous == products[id].quantity
                         delta == IF t = "add" THEN m ELSE -m
                     IN  /\ resp' = Response("adjust_stock", "success")
                         /\ products' = [products EXCEPT ![id].quantity = previous + delta]
                         /\ LedgerGrowsBy(1)
                         /\ ledger'[Len(ledger')] =
                               [product_id |-> id, change_type |-> r,
                                quantity_change |-> delta,
                                previous_quantity |-> previous,
                                new_quantity |-> previous + delta,
                                reference_id |-> NoRef, reference_type |-> "none"]
                         /\ UNCHANGED <<categories, sales, purchases>>]_vars

\* C12 witness: a subtraction larger than the stock went through and left a
\* negative quantity
C12_Witness ==
    /\ resp = Response("adjust_stock", "success")
    /\ Len(ledger) > 0
    /\ LET row == ledger[Len(ledger)]
       IN  /\ row.change_type = "manual_adjustment"
           /\ row.quantity_change < 0
           /\ row.previous_quantity < -row.quantity_change
           /\ row.new_quantity < 0
           /\ row.product_id \in DOMAIN products
           /\ products[row.product_id].quantity = row.new_quantity

\* what add_product writes to stock_history for the new product id (lines 506-516)
InitialStockPost(id, q) ==
    /\ products'[id].quantity = q
    /\ IF q > 0
       THEN /\ LedgerGrowsBy(1)
            /\ ledger'[Len(ledger')] =
                  [product_id |-> id, change_type |-> "initial_stock",
                   quantity_change |-> q, previous_quantity |-> 0, new_quantity |-> q,
                   reference_id |-> NoRef, reference_type |-> "none"]
       ELSE ledger' = ledger

\* the rows add_product writes, without the comparison of the new product's
\* quantity with the whole of its stock_history
C13_InitialStockRowWritten ==
    [][resp'.op = "add_product"
         => \A c \in CategoryIds, sku \in Skus, price \in ListPrices, q \in InitialQtys :
               (session /\ add_product(c, sku, price, q))
                  => \E id \in DOMAIN products' \ DOMAIN products :
                        /\ DOMAIN products' = DOMAIN products \cup {id}
                        /\ InitialStockPost(id, q)]_vars

\* C13: add_product with quantity q > 0 creates the product with quantity q and
\* exactly one stock_history row for it (change_type "initial_stock",
\* quantity_change q, previous_quantity 0, new_quantity q), with quantity 0 it
\* adds no row, and either way the new product's quantity is then the sum of the
\* quantity_change of the stock_history rows that carry its id
C13_InitialStockRow ==
    [][resp'.op = "add_product"
         => \A c \in CategoryIds, sku \in Skus, price \in ListPrices, q \in InitialQtys :
               (session /\ add_product(c, sku, price, q))
                  => \E id \in DOMAIN products' \ DOMAIN products :
                        /\ DOMAIN products' = DOMAIN products \cup {id}
                        /\ InitialStockPost(id, q)
                        /\ products'[id].quantity = DeltaSum(ledger', id)]_vars

\* C14: without a session every business route answers with the redirect to
\* login and its warning and writes nothing, and no step at all writes a stored
\* record; a session starts only with a login whose credentials match and ends
\* only with logout, which always ends it; so between a logout and the next
\* successful login no business operation takes effect
C14_AuthGate ==
    /\ [][(~session /\ OfficeStep)
            => (resp' = Response("login_required", "warning")
                /\ UNCHANGED <<session, data>>)]_vars
    /\ [][~session => UNCHANGED data]_vars
    /\ [][(~session /\ session') => (login(TRUE) /\ resp' = Response("login", "success"))]_vars
    /\ [][logout => ~session']_vars
    /\ [][(session /\ ~session') => resp' = Response("logout", "info")]_vars

\* C14 witness: after a logout a business route was redirected to login while
\* there were a product, a sale and a pending purchase order it could have written
C14_Witness ==
    /\ ~session
    /\ resp = Response("login_required", "warning")
    /\ products # <<>>
    /\ sales # <<>>
    /\ \E id \in DOMAIN purchases : purchases[id].status = "pending"

\* every product a step keeps has the quantity it had
QuantitiesKept ==
    \A p \in DOMAIN products \cap DOMAIN products' :
       products'[p].quantity = products[p].quantity

\* the responses of the routes that are no trigger of the stock ledger
FrameOps ==
    {"edit_product", "create_purchase", "delete_purchase",
     "add_category", "edit_category", "delete_category",
     "add_supplier", "edit_supplier", "delete_supplier",
     "add_customer", "edit_customer", "delete_customer",
     "reports", "login", "logout",
     "login_required", "not_found_error", "internal_error"}

\* C15: edit_product, create_purchase, delete_purchase and every category,
\* supplier, customer and reporting request leave the products that exist and the
\* quantity of each as they were; a step that changes the quantity of a product
\* is a successful adjust_stock, create_sale, delete_sale or receive_purchase
\* (a product gets its first quantity from add_product)
C15_QuantityFrame ==
    /\ [][resp'.op \in FrameOps
            => (DOMAIN products' = DOMAIN products /\ QuantitiesKept)]_vars
    /\ [][~QuantitiesKept
            => (/\ resp'.op \in {"adjust_stock", "create_sale", "delete_sale",
                                 "receive_purchase"}
                /\ resp'.status = "success")]_vars
    /\ [][\A p \in DOMAIN products' \ DOMAIN products :
             resp' = Response("add_product", "success")]_vars

\* C15 witness: edit_product went through on a product whose quantity the stock
\* routes had moved away from its initial stock
C15_Witness ==
    /\ resp = Response("edit_product", "success")
    /\ \E p \in DOMAIN products :
          /\ products[p].sku = "ELEC002"
          /\ products[p].quantity \notin {0, MaxQty}
    /\ \E id \in DOMAIN purchases : purchases[id].status = "pending"

\* C16: no step removes a stock_history row or changes a field of one: the
\* table after any request, the deletions of a product, a sale, a purchase
\* order and a category included, is the table before it followed by the rows
\* the request adds
C16_LedgerAppendOnly ==
    [][/\ Len(ledger') >= Len(ledger)
       /\ SubSeq(ledger', 1, Len(ledger)) = ledger]_vars

\* C16 witness: a product was deleted, and so was the sale that sold it, and
\* the rows of both are still in stock_history
C16_Witness ==
    /\ resp = Response("delete_product", "success")
    /\ \E i, j \in 1..Len(ledger) :
          /\ ledger[i].product_id \notin DOMAIN products
          /\ ledger[i].change_type = "initial_stock"
          /\ ledger[j].product_id \notin DOMAIN products
          /\ ledger[j].reference_type = "sale"
          /\ ledger[j].reference_id \notin DOMAIN sales

\* worker w's request has passed its stock check and has not written yet
Checked(w) == workers[w].pc = "checked"

\* C17: nothing holds a create_sale request between its stock check and its
\* writes: the check of one request passes on the stored quantity alone, whether
\* or not another request has passed its own check on the same product and not
\* written yet; and the writes of a request that passed its check always commit,
\* without a second check, each product ending at the quantity of the object the
\* session holds (as read by the check, or as stored now) less the lines.  So two
\* requests can pass the check on the same quantity and both commit, and the
\* product ends below zero or with one of the two decrements lost
C17_SaleRace ==
    /\ [][\A w \in Workers, form \in SaleForms :
             (/\ session
              /\ ~Checked(w)
              /\ CheckSaleLines(products, form) = "ok"
              /\ sale_check(w, form))
                => /\ form # <<>> => Checked(w)'
                   /\ UNCHANGED data]_vars
    /\ [][\A w \in Workers, read \in Reads :
             (Checked(w) /\ sale_commit(w, read))
                => LET form == workers[w].form
                       seen == workers[w].seen
                   IN  /\ resp' = Response("create_sale", "success")
                       /\ Cardinality(DOMAIN sales') = Cardinality(DOMAIN sales) + 1
                       /\ LedgerGrowsBy(Len(form))
                       /\ \A p \in FormProducts(form) :
                             products'[p].quantity =
                                (IF p \in Held(form) \/ read = "cached"
                                 THEN seen[p] ELSE products[p].quantity)
                                   - LineSum(form, p)]_vars

\* C17 witness: two requests passed the check on the same quantity s of a
\* product, for a and b units with s >= a, s >= b and s < a + b, both committed,
\* and the product's quantity is neither s - a nor s - b
C17_Witness ==
    /\ \A w \in Workers : workers[w].pc = "done"
    /\ Cardinality(DOMAIN sales) = 2
    /\ \E p \in DOMAIN products :
          /\ p \in DOMAIN workers["w1"].seen \cap DOMAIN workers["w2"].seen
          /\ LET s == workers["w1"].seen[p]
                 a == LineSum(workers["w1"].form, p)
                 b == LineSum(workers["w2"].form, p)
             IN  /\ workers["w2"].seen[p] = s
                 /\ s >= a /\ s >= b /\ s < a + b
                 /\ products[p].quantity \notin {s - a, s - b}

\* the sum of the subtotals of the sale_item rows of a sale
RECURSIVE SubtotalSum(_)
SubtotalSum(items) ==
    IF items = <<>> THEN 0 ELSE Head(items).subtotal + SubtotalSum(Tail(items))

\* the sale_item rows and the total of a sale agree with each other
AmountsAgree(sale) ==
    /\ \A i \in 1..Len(sale.items) :
          sale.items[i].subtotal = sale.items[i].quantity * sale.items[i].unit_price
    /\ sale.total_amount = SubtotalSum(sale.items)

\* C18: a successful create_sale writes one sale_item row per submitted line,
\* with the line's product, quantity and unit price and subtotal = quantity x
\* unit price, and total_amount = the sum of the subtotals; and no step changes
\* a sale_item row or the total of a sale it does not delete (edit_product's
\* new unit price does not reach the rows already written)
C18_SaleAmounts ==
    /\ [][resp' = Response("create_sale", "success")
            => \A c \in CustomerIds \cup {NoRef}, form \in PricedSaleForms :
                  create_sale(c, form)
                     => \E id \in DOMAIN sales' \ DOMAIN sales :
                           /\ Len(sales'[id].items) = Len(form)
                           /\ \A i \in 1..Len(form) :
                                 sales'[id].items[i] =
                                    [product_id |-> form[i].product_id,
                                     quantity |-> form[i].quantity,
                                     unit_price |-> form[i].unit_price,
                                     subtotal |-> form[i].quantity * form[i].unit_price]
                           /\ sales'[id].total_amount = SubtotalSum(sales'[id].items)]_vars
    /\ [][\A id \in DOMAIN sales \cap DOMAIN sales' :
             /\ sales'[id].items = sales[id].items
             /\ sales'[id].total_amount = sales[id].total_amount]_vars
    /\ [](\A id \in DOMAIN sales : AmountsAgree(sales[id]))

\* C18 witness: a sale of two lines at different unit prices and quantities is
\* on file, its customer was deleted, and edit_product has just given the
\* product a unit price that is not the one of the first line
C18_Witness ==
    /\ resp = Response("edit_product", "success")
    /\ customers = <<>>
    /\ \E id \in DOMAIN sales :
          LET items == sales[id].items
          IN  /\ Len(items) = 2
              /\ items[1].unit_price # items[2].unit_price
              /\ items[1].quantity # items[2].quantity
              /\ items[1].product_id \in DOMAIN products
              /\ products[items[1].product_id].unit_price # items[1].unit_price
              /\ sales[id].total_amount = items[1].subtotal + items[2].subtotal
              /\ sales[id].customer_id = NoRef

NoneNegative(prods) == \A p \in DOMAIN prods : prods[p].quantity >= 0

\* C19: from a state where no product's quantity is negative, a create_sale
\* request leaves no product's quantity negative, whatever its lines, several
\* lines for one product included
C19_NeverOversells ==
    [][(NoneNegative(products) /\ resp'.op = "create_sale")
          => NoneNegative(products')]_vars

\* the rows of led that are for product p, in order
RowsOf(led, p) == SelectSeq(led, LAMBDA r : r.product_id = p)

\* the rows a step adds for product p start from p's quantity, each starts from
\* where the one before it ended, and the last ends at p's new quantity
RowsChain(p) ==
    LET rows == RowsOf(Emitted, p)
    IN  rows # <<>> =>
           /\ rows[1].previous_quantity =
                 (IF p \in DOMAIN products THEN products[p].quantity ELSE 0)
           /\ \A i \in 1..(Len(rows) - 1) :
                 rows[i + 1].previous_quantity = rows[i].new_quantity
           /\ p \in DOMAIN products'
           /\ rows[Len(rows)].new_quantity = products'[p].quantity

\* C20: every stock_history row, whichever of add_product, adjust_stock,
\* create_sale and receive_purchase wrote it, has new_quantity =
\* previous_quantity + quantity_change; and the rows a request writes for a
\* product follow that product's quantity: the first starts from the quantity
\* before the request, each next one from where the one before ended, and the
\* last ends at the quantity the request leaves
C20_RowArithmetic ==
    /\ [](\A i \in 1..Len(ledger) :
             ledger[i].new_quantity =
                ledger[i].previous_quantity + ledger[i].quantity_change)
    /\ [][\A p \in ProductIds : RowsChain(p)]_vars

\* C20 witness: each of the four routes has written a row, the last one a sale
\* that ends at the quantity its product now has
C20_Witness ==
    /\ \A t \in {"initial_stock", "manual_adjustment", "purchase", "sale"} :
          \E i \in 1..Len(ledger) : ledger[i].change_type = t
    /\ ledger[Len(ledger)].change_type = "sale"
    /\ ledger[Len(ledger)].product_id \in DOMAIN products
    /\ ledger[Len(ledger)].new_quantity = products[ledger[Len(ledger)].product_id].quantity

\* C21: a purchase order is created pending; the only change of status any
\* request makes is pending to received; an order that is received is still
\* there after every later request, received and with the lines it had
C21_StatusMonotonic ==
    /\ [](\A id \in DOMAIN purchases : purchases[id].status \in {"pending", "received"})
    /\ [][\A id \in DOMAIN purchases' \ DOMAIN purchases :
             /\ purchases'[id].status = "pending"
             /\ resp' = Response("create_purchase", "success")]_vars
    /\ [][\A id \in DOMAIN purchases \cap DOMAIN purchases' :
             purchases'[id].status # purchases[id].status
                 => /\ purchases[id].status = "pending"
                    /\ purchases'[id].status = "received"
                    /\ resp' = Response("receive_purchase", "success")]_vars
    /\ [][\A id \in DOMAIN purchases :
             AlreadyReceived(purchases[id])
                 => /\ id \in DOMAIN purchases'
                    /\ AlreadyReceived(purchases'[id])
                    /\ purchases'[id].items = purchases[id].items]_vars

\* C21 witness: the deletion of a received order was asked for and refused,
\* after the supplier of the order and a product of its lines were deleted
C21_Witness ==
    /\ resp = Response("delete_purchase", "danger")
    /\ \E id \in DOMAIN purchases :
          /\ AlreadyReceived(purchases[id])
          /\ purchases[id].supplier_id = NoRef
          /\ suppliers = <<>>
          /\ \E i \in 1..Len(purchases[id].items) :
                 purchases[id].items[i].product_id \notin DOMAIN products

\* the product ids the rows of a document name
ItemProducts(items) == {items[i].product_id : i \in 1..Len(items)}

\* C22: in every reachable state each sale_item, purchase_item and
\* stock_history row names a product that is in the product table, so that
\* delete_sale and receive_purchase find the product of every line
C22_ReferentialIntegrity ==
    /\ \A id \in DOMAIN sales : ItemProducts(sales[id].items) \subseteq DOMAIN products
    /\ \A id \in DOMAIN purchases :
          ItemProducts(purchases[id].items) \subseteq DOMAIN products
    /\ ItemProducts(ledger) \subseteq DOMAIN products

\* what C22 rules out and the code reaches: a request answered by the 500
\* handler while a sale is on file whose line names a product that
\* delete_product removed after the sale (the ledger row of the sale shows the
\* product was there); delete_sale of that sale faults and leaves it on file
C22_DanglingLineFaults ==
    /\ resp = Response("internal_error", "danger")
    /\ \E id \in DOMAIN sales, i \in 1..Len(ledger) :
          /\ ledger[i].reference_type = "sale"
          /\ ledger[i].reference_id = id
          /\ ledger[i].product_id \in ItemProducts(sales[id].items)
          /\ ledger[i].product_id \notin DOMAIN products
          /\ ~RestoreStock(products, sales[id].items).ok

\* the sum over the received orders among 1..n of the quantities their lines
\* have for product p
RECURSIVE ReceivedSum(_, _)
ReceivedSum(n, p) ==
    IF n = 0 THEN 0
    ELSE (IF n \in DOMAIN purchases /\ AlreadyReceived(purchases[n])
          THEN LineSum(purchases[n].items, p) ELSE 0)
         + ReceivedSum(n - 1, p)

\* C23: however two receive_purchase requests on one pending order interleave,
\* each line's quantity is added to its product exactly once and the order gets
\* exactly one "purchase" stock_history row per line: with products that start
\* at MaxQty and are moved by receipts only, every product is at MaxQty plus
\* the lines of the received orders, and the rows of every order are as many as
\* its lines once it is received
C23_ReceiptOnceUnderConcurrency ==
    /\ \A p \in DOMAIN products :
          products[p].quantity = MaxQty + ReceivedSum(Max(DOMAIN purchases \cup {0}), p)
    /\ \A id \in DOMAIN purchases :
          AlreadyReceived(purchases[id]) => ReceiptRows(id) = Len(purchases[id].items)

\* what C23 rules out and the code reaches: two requests passed the test of the
\* status of one pending order, both committed, the order has two "purchase"
\* rows for each line and its products got every line twice
C23_ReceivedTwice ==
    /\ \A w \in Workers : workers[w].pc = "done"
    /\ resp = Response("receive_purchase", "success")
    /\ \E id \in DOMAIN purchases :
          /\ purchases[id].items # <<>>
          /\ AllProductsExist(purchases[id].items)
          /\ ReceiptRows(id) = 2 * Len(purchases[id].items)
          /\ \A p \in ItemProducts(purchases[id].items) :
                products[p].quantity = MaxQty + 2 * LineSum(purchases[id].items, p)

====
